---- MODULE Spec2Model ----
(***************************************************************************)
(* wallet-chain-account: the chain dispatcher (registry construction,      *)
(* pre-handler, interceptor, the eighteen dispatcher operations), the      *)
(* Ethereum chain adaptor behind it, and main's startup sequence.          *)
(***************************************************************************)
EXTENDS Naturals, Sequences, FiniteSets, TLC

(* ----------------------------- bounds ---------------------------------- *)

\* number of request slots (requests in flight at the same time)
MaxReq == 1

\* longest list of chains in the configuration file
MaxChains == 2

\* number of request slots when requests are served concurrently
MaxConc == 2

(* --------------------------- vocabulary -------------------------------- *)

\* ethereum.ChainName
ChainName == "Ethereum"

\* chain identifiers that configurations and requests are drawn from
ChainIds == {"Ethereum", "ethereum", "bitcoin"}

\* the two ChainAdaptor source files of package ethereum
Impls == {"part_000", "part_001"}

\* the operations of the WalletAccountService implemented by ChainDispatcher
Ops ==
  {"GetSupportChains", "ConvertAddress", "ValidAddress", "GetBlockByNumber",
   "GetBlockByHash", "GetBlockHeaderByHash", "GetBlockHeaderByNumber",
   "GetAccount", "GetFee", "SendTx", "GetTxByAddress", "GetTxByHash",
   "GetBlockByRange", "CreateUnSignTransaction", "BuildSignedTransaction",
   "DecodeTransaction", "VerifySignedTransaction", "GetExtraData"}

\* common.ReturnCode
ReturnCode_SUCCESS == "SUCCESS"
ReturnCode_ERROR == "ERROR"

\* config.UnsupportedOperation
UnsupportedOperation == "unsupported operation"

\* a nil error
NilErr == [kind |-> "nil", code |-> "", msg |-> ""]

\* a nil response pointer
NilResp == [nil |-> TRUE]

\* a nil chain.IChainAdaptor
NilAdaptor == [id |-> 0, name |-> "nil"]

\* a response message: Code, Msg and the operation's payload fields that are
\* not zero-valued, as a set of <<field, value>> pairs
Envelope(code, msg, payload) ==
  [nil |-> FALSE, Code |-> code, Msg |-> msg, Payload |-> payload]

(* ----------------------------- requests -------------------------------- *)

\* a request message: the chain and the operation's fields (zero-valued when
\* the operation has no such field)
Request(op, chain, pk, height, hash) ==
  [op |-> op, Chain |-> chain, PublicKey |-> pk, Height |-> height, Hash |-> hash]

PublicKeys == {<< >>, <<4>>, <<4, 1>>}

Requests ==
  {Request(op, c, << >>, 0, "") : op \in Ops \ {"ConvertAddress"}, c \in ChainIds}
    \cup {Request("ConvertAddress", c, pk, 0, "") : c \in ChainIds, pk \in PublicKeys}
    \cup {Request("GetBlockHeaderByNumber", c, << >>, 1, "") : c \in ChainIds}
    \cup {Request("GetBlockHeaderByHash", c, << >>, 0, "0xab") : c \in ChainIds}

\* CommonRequest.GetChain
GetChain(req) == req.Chain

(* ------------------------------ registry ------------------------------- *)

EmptyRegistry == [c \in {} |-> NilAdaptor]

\* Go map read: the zero value (a nil interface) for a missing key
Lookup(reg, c) == IF c \in DOMAIN reg THEN reg[c] ELSE NilAdaptor

\* Go map write
Store(reg, k, a) == [c \in DOMAIN reg \cup {k} |-> IF c = k THEN a ELSE reg[c]]

\* chainAdaptorFactorMap of New
chainAdaptorFactorMap == {ChainName}

\* what ethereum.NewChainAdaptor can do: dial both clients, fail to dial the
\* node, fail to build the data client, or index an empty RPCs list (a panic)
FactoryOutcomes == {"ok", "dialErr", "dataErr", "noRPCs"}

\* ethereum.NewChainAdaptor: the adaptor and the error it returns
NewChainAdaptor(outcome, id) ==
  IF outcome = "ok"
    THEN [adaptor |-> [id |-> id, name |-> ChainName], err |-> NilErr]
    ELSE [adaptor |-> NilAdaptor,
          err |-> [kind |-> "error", code |-> "", msg |-> outcome]]

\* log.Crit if it returned to its caller after writing the record, as
\* log.Error does
LogCritReturns == [exits |-> FALSE]

\* log.Crit: writes the record and ends the process with os.Exit(1)
LogCrit == [exits |-> TRUE]

(* --------------------------- the dispatcher ---------------------------- *)

\* what a piece of code does when run: it returns (resp, err), panics with a
\* fault value, invokes an adaptor method, or starts a downstream call
Return(resp, err) ==
  [kind |-> "return", resp |-> resp, err |-> err, fault |-> "", call |-> ""]

Panic(fault) ==
  [kind |-> "panic", resp |-> NilResp, err |-> NilErr, fault |-> fault, call |-> ""]

Invoke(method) ==
  [kind |-> "invoke", resp |-> NilResp, err |-> NilErr, fault |-> "", call |-> method]

Downstream(call) ==
  [kind |-> "downstream", resp |-> NilResp, err |-> NilErr, fault |-> "", call |-> call]

\* the Go runtime's panic values
ImplementMe == "implement me"
NilDereference == "runtime error: invalid memory address or nil pointer dereference"
SliceBounds == "runtime error: slice bounds out of range [1:0]"

\* preHandler if it let every request through
preHandlerSkip(reg, req) == NilResp

\* lower case of a chain identifier
ToLower(c) == IF c = "Ethereum" THEN "ethereum" ELSE c

\* preHandler if it matched chain names without regard to case
preHandlerFold(reg, req) ==
  IF ToLower(GetChain(req)) \notin {ToLower(k) : k \in DOMAIN reg}
    THEN Envelope(ReturnCode_ERROR, UnsupportedOperation, {})
    ELSE NilResp

\* preHandler: a reply when the request's chain is not in the registry, else nil
preHandler(reg, req) ==
  IF GetChain(req) \notin DOMAIN reg
    THEN Envelope(ReturnCode_ERROR, UnsupportedOperation, {})
    ELSE NilResp

\* the Msg each dispatcher operation puts in its own reply when preHandler
\* returned one
PreHandleMsg(op) ==
  CASE op = "GetSupportChains" -> UnsupportedOperation
    [] op = "ConvertAddress" -> "covert address fail at pre handle"
    [] op = "GetBlockByNumber" -> "get block by number fail at pre handle"
    [] op = "GetBlockByHash" -> "get block by hash fail at pre handle"
    [] op = "GetBlockHeaderByHash" -> "get block header by hash fail at pre handle"
    [] op = "GetBlockHeaderByNumber" -> "get block header by number fail at pre handle"
    [] op = "GetAccount" -> "get account information fail at pre handle"
    [] op = "GetFee" -> "get fee fail at pre handle"
    [] op = "SendTx" -> "send tx fail at pre handle"
    [] op = "GetTxByAddress" -> "get tx by address fail pre handle"
    [] op = "GetTxByHash" -> "get tx by hash fail at pre handle"
    [] op = "GetBlockByRange" -> "get blcok by range fail at pre handle"
    [] op = "CreateUnSignTransaction" -> "get un sign tx fail at pre handle"
    [] op = "BuildSignedTransaction" -> "signed tx fail at pre handle"
    [] op = "DecodeTransaction" -> "decode tx fail at pre handle"
    [] op = "VerifySignedTransaction" -> "verify tx fail at pre handle"
    [] op = "GetExtraData" -> "get extra data fail at pre handle"
    [] OTHER -> ""

\* ChainDispatcher.ValidAddress
DispatcherValidAddress == Panic(ImplementMe)

\* a dispatcher operation up to its call of the adaptor: ValidAddress panics,
\* every other operation runs preHandler and either replies itself or invokes
\* the method of the same name on d.registry[request.Chain]
DispatcherOp(reg, req) ==
  IF req.op = "ValidAddress"
    THEN DispatcherValidAddress
    ELSE IF preHandler(reg, req) # NilResp
           THEN Return(Envelope(ReturnCode_ERROR, PreHandleMsg(req.op), {}), NilErr)
           ELSE Invoke(req.op)

(* ------------------------ the Ethereum adaptor ------------------------- *)

\* the downstream calls: EthClient's node RPCs and EthData's data API
HeaderCalls == {"BlockHeaderByHash", "BlockHeaderByNumber"}

\* what a downstream call can come back with: a result, an error, or (for a
\* header) a result whose BlobGasUsed / ExcessBlobGas pointers are nil
DsOutcomes(call) ==
  IF call \in HeaderCalls THEN {"ok", "err", "okNoBlob"} ELSE {"ok", "err"}

\* the context an outbound call of an adaptor method runs under: "request" if
\* it is the ctx of the request, "background" if not. The dispatcher operations
\* call the adaptor method with the request alone, the adaptor methods have no
\* context parameter, and the clients were dialled under context.Background()
OutboundCtx == "background"

\* the error value of a failed downstream call
DsErr(call) == [kind |-> "error", code |-> "", msg |-> call]

\* ChainAdaptor.GetSupportChains
AdaptorGetSupportChains ==
  Return(Envelope(ReturnCode_SUCCESS, "Support this chain", {<<"Support", "true">>}),
         NilErr)

\* ChainAdaptor.ConvertAddress: req.PublicKey[1:] panics on an empty key; the
\* address is kept as the bytes that are hashed
AdaptorConvertAddress(req) ==
  IF Len(req.PublicKey) < 1
    THEN Panic(SliceBounds)
    ELSE Return(Envelope(ReturnCode_SUCCESS, "convert address successs",
                         {<<"Address", Tail(req.PublicKey)>>}), NilErr)

\* ChainAdaptor.ValidAddress: return nil, nil
AdaptorValidAddress == Return(NilResp, NilErr)

\* the methods that part_000 implements with a downstream call first
FirstCall000(method) ==
  CASE method = "GetBlockHeaderByHash" -> "BlockHeaderByHash"
    [] method = "GetBlockHeaderByNumber" -> "BlockHeaderByNumber"
    [] method = "GetBlockByNumber" -> "BlockByNumber"
    [] method = "GetAccount" -> "TxCountByAddress"
    [] OTHER -> ""

\* the methods that part_001 implements with a downstream call first
FirstCall001(method) ==
  CASE method = "GetBlockByNumber" -> "BlockByNumber"
    [] OTHER -> ""

FirstCall(im, method) ==
  IF im = "part_000" THEN FirstCall000(method) ELSE FirstCall001(method)

\* an unimplemented adaptor method: panic("implement me")
AdaptorNotImplemented == Panic(ImplementMe)

\* an adaptor method from its entry to its first downstream call, its return
\* or its panic; a method called on a nil adaptor panics
AdaptorEnter(im, adaptor, method, req) ==
  IF adaptor = NilAdaptor THEN Panic(NilDereference)
  ELSE IF method = "GetSupportChains" THEN AdaptorGetSupportChains
  ELSE IF method = "ConvertAddress" THEN AdaptorConvertAddress(req)
  ELSE IF method = "ValidAddress" THEN AdaptorValidAddress
  ELSE IF FirstCall(im, method) # "" THEN Downstream(FirstCall(im, method))
  ELSE AdaptorNotImplemented

\* GetBlockHeaderByHash / GetBlockHeaderByNumber after the node answered
HeaderResume(call, outcome) ==
  IF outcome = "err"
    THEN Return(Envelope(ReturnCode_ERROR,
                         IF call = "BlockHeaderByHash"
                           THEN "get latest block header fail"
                           ELSE "get lates block number fail", {}), NilErr)
    ELSE IF outcome = "okNoBlob"
           THEN Panic(NilDereference)
           ELSE Return(Envelope(ReturnCode_SUCCESS, "get latest block header success",
                                {<<"BlockHeader", call>>}), NilErr)

\* GetBlockByNumber after the node answered
BlockResume(outcome) ==
  IF outcome = "err"
    THEN Return(Envelope(ReturnCode_ERROR, "block by number error", {}), NilErr)
    ELSE Return(Envelope(ReturnCode_SUCCESS, "get block by number success",
                         {<<"Hash", "h">>, <<"BaseFee", "f">>, <<"Transactions", "t">>}),
                NilErr)

\* GetAccount after TxCountByAddress answered
NonceResume(outcome) ==
  IF outcome = "err"
    THEN Return(Envelope(ReturnCode_ERROR, "get nonce by address fail", {}), NilErr)
    ELSE Downstream("getBalanceByaddress")

\* GetAccount after getBalanceByaddress answered
BalanceResume(outcome) ==
  IF outcome = "err"
    THEN Return(Envelope(ReturnCode_ERROR, "get balance by address fail",
                         {<<"Balance", "0">>}), DsErr("getBalanceByaddress"))
    ELSE Return(Envelope(ReturnCode_SUCCESS, "get account response success",
                         {<<"AccountNumber", "0">>, <<"Sequence", "n">>,
                          <<"Balance", "b">>}), NilErr)

\* an adaptor method from the answer of its downstream call onwards
AdaptorResume(call, outcome) ==
  CASE call \in HeaderCalls -> HeaderResume(call, outcome)
    [] call = "BlockByNumber" -> BlockResume(outcome)
    [] call = "TxCountByAddress" -> NonceResume(outcome)
    [] call = "getBalanceByaddress" -> BalanceResume(outcome)

(* --------------------------- the interceptor --------------------------- *)

\* status.Errorf(codes.Internal, "Panic err: %v", e)
PanicErr(e) == [kind |-> "status", code |-> "Internal", msg |-> "Panic err: " \o e]

\* Interceptor without its deferred recover(): the panic goes on up the
\* goroutine's stack and ends the process
InterceptorNoRecover(e) ==
  [alive |-> FALSE, out |-> [resp |-> NilResp, err |-> NilErr]]

\* Interceptor's deferred function: recover() stops the panic, and the call
\* returns resp = nil, err = the Internal status; the process lives on
InterceptorRecover(e) ==
  [alive |-> TRUE, out |-> [resp |-> NilResp, err |-> PanicErr(e)]]

\* no reply
NoReply == [resp |-> NilResp, err |-> NilErr]

\* the grpc server's reply to the caller for what the interceptor returned: the
\* response message when err is nil, else the error status alone
CallerSees(out) ==
  IF out.err # NilErr
    THEN [resp |-> NilResp, err |-> out.err]
    ELSE IF out.resp = NilResp
           THEN [resp |-> NilResp,
                 err |-> [kind |-> "status", code |-> "Internal", msg |-> "marshal nil"]]
           ELSE [resp |-> out.resp, err |-> NilErr]

VARIABLES
  phase,      \* main's position: start, building, built, serving, exited
  exit,       \* how the process ended: none, exit1 (os.Exit(1)), panic
  impl,       \* which ChainAdaptor source file is package ethereum
  file,       \* the Chains list of the configuration file
  conf,       \* conf.Chains once config.New has returned
  idx,        \* number of entries of conf.Chains that New has gone through
  registry,   \* ChainDispatcher.registry
  nextId,     \* number of adaptors constructed so far
  failed,     \* history: chains whose construction function returned an error
  reqs,       \* per request slot: the request's position and what it has done
  firstFaultReply \* history: what the caller of the first request that panicked was sent

vars ==
  <<phase, exit, impl, file, conf, idx, registry, nextId, failed, reqs, firstFaultReply>>

Slots == 1 .. MaxReq

Confs == UNION {[1 .. n -> ChainIds] : n \in 0 .. MaxChains}

\* a request slot: pc is idle, downstream (the adaptor waits for the pending
\* call), done (the interceptor has returned out) or dead (the process died
\* under it); calls are the adaptor methods invoked for the request, ds the
\* downstream calls made, fault the value it panicked with, callCtx the
\* context the pending call runs under, cancelled whether the caller has
\* cancelled the request's ctx
IdleSlot ==
  [pc |-> "idle", req |-> Request("GetSupportChains", "", << >>, 0, ""),
   calls |-> << >>, ds |-> << >>, pending |-> "", fault |-> "",
   callCtx |-> "", cancelled |-> FALSE,
   out |-> [resp |-> NilResp, err |-> NilErr]]

Init ==
  /\ phase = "start"
  /\ exit = "none"
  /\ impl \in Impls
  /\ file \in Confs
  /\ conf = << >>
  /\ idx = 0
  /\ registry = EmptyRegistry
  /\ nextId = 0
  /\ failed = {}
  /\ reqs = [r \in Slots |-> IdleSlot]
  /\ firstFaultReply = NoReply

(* ------------------------------ startup -------------------------------- *)

\* main: config.New(*f); a failure panics
LoadConfig(ok) ==
  /\ phase = "start"
  /\ IF ok
       THEN /\ conf' = file
            /\ phase' = "building"
            /\ exit' = exit
       ELSE /\ conf' = conf
            /\ phase' = "exited"
            /\ exit' = "panic"
  /\ UNCHANGED <<impl, file, idx, registry, nextId, failed, reqs, firstFaultReply>>

\* New: one iteration of the loop over conf.Chains
NewIter(outcome) ==
  /\ phase = "building"
  /\ idx < Len(conf)
  /\ LET c == conf[idx + 1]
         made == NewChainAdaptor(outcome, nextId + 1)
     IN IF c \in chainAdaptorFactorMap
          THEN IF outcome = "noRPCs"
                 THEN \* conf.WalletNode.Eth.RPCs[0] panics in main's goroutine
                      /\ phase' = "exited"
                      /\ exit' = "panic"
                      /\ UNCHANGED <<idx, registry, nextId, failed>>
                 ELSE IF made.err # NilErr /\ LogCrit.exits
                        THEN /\ phase' = "exited"
                             /\ exit' = "exit1"
                             /\ failed' = failed \cup {c}
                             /\ nextId' = nextId
                             /\ UNCHANGED <<idx, registry>>
                        ELSE /\ registry' = Store(registry, c, made.adaptor)
                             /\ failed' = IF made.err # NilErr
                                            THEN failed \cup {c} ELSE failed
                             /\ nextId' = IF made.err = NilErr
                                            THEN nextId + 1 ELSE nextId
                             /\ idx' = idx + 1
                             /\ UNCHANGED <<phase, exit>>
          ELSE \* log.Error("unsupported chain"): skipped
               /\ outcome = "ok"
               /\ idx' = idx + 1
               /\ UNCHANGED <<phase, exit, registry, nextId, failed>>
  /\ UNCHANGED <<impl, file, conf, reqs, firstFaultReply>>

\* New: return &dispatcher, nil
NewReturn ==
  /\ phase = "building"
  /\ idx = Len(conf)
  /\ phase' = "built"
  /\ UNCHANGED <<exit, impl, file, conf, idx, registry, nextId, failed, reqs, firstFaultReply>>

\* main if it started the server while New was still going through conf.Chains
ServeEarly(ok) ==
  /\ phase \in {"building", "built"}
  /\ IF ok
       THEN phase' = "serving" /\ exit' = exit
       ELSE phase' = "exited" /\ exit' = "panic"
  /\ UNCHANGED <<impl, file, conf, idx, registry, nextId, failed, reqs, firstFaultReply>>

\* main: grpc.NewServer, net.Listen, server.Serve; a failure panics
Serve(ok) ==
  /\ phase = "built"
  /\ IF ok
       THEN phase' = "serving" /\ exit' = exit
       ELSE phase' = "exited" /\ exit' = "panic"
  /\ UNCHANGED <<impl, file, conf, idx, registry, nextId, failed, reqs, firstFaultReply>>

(* ------------------------------ requests ------------------------------- *)

startupVars == <<impl, file, conf, idx, registry, nextId, failed>>

\* the rest of the request once the code run so far ended with res: a
\* downstream call leaves the request waiting, a return goes back through
\* Interceptor unchanged, a panic runs Interceptor's deferred function
Continue(r, slot, res) ==
  IF res.kind = "downstream"
    THEN /\ reqs' = [reqs EXCEPT ![r] =
                       [slot EXCEPT !.pc = "downstream", !.pending = res.call,
                                    !.callCtx = OutboundCtx]]
         /\ UNCHANGED <<phase, exit, firstFaultReply>>
    ELSE IF res.kind = "return"
      THEN /\ reqs' = [reqs EXCEPT ![r] =
                         [slot EXCEPT !.pc = "done", !.pending = "", !.callCtx = "",
                                      !.out = [resp |-> res.resp, err |-> res.err]]]
           /\ UNCHANGED <<phase, exit, firstFaultReply>>
      ELSE LET rec == InterceptorRecover(res.fault)
           IN IF rec.alive
                THEN /\ reqs' = [reqs EXCEPT ![r] =
                                   [slot EXCEPT !.pc = "done", !.pending = "",
                                                !.callCtx = "",
                                                !.fault = res.fault, !.out = rec.out]]
                     /\ firstFaultReply' = IF firstFaultReply = NoReply
                                             THEN CallerSees(rec.out)
                                             ELSE firstFaultReply
                     /\ UNCHANGED <<phase, exit>>
                ELSE \* the panic leaves the goroutine: the process dies
                     /\ phase' = "exited"
                     /\ exit' = "panic"
                     /\ reqs' = [reqs EXCEPT ![r] =
                                   [slot EXCEPT !.pc = "dead", !.fault = res.fault]]
                     /\ UNCHANGED firstFaultReply

\* Interceptor around the dispatcher operation named by the request
\* (info.FullMethod): the request's chain is read and logged, handler(ctx, req)
\* runs the operation, and the operation invokes the adaptor method, which
\* runs up to its first downstream call
Interceptor(r, req) ==
  /\ phase = "serving"
  /\ reqs[r].pc = "idle"
  /\ LET d == DispatcherOp(registry, req)
         adaptor == Lookup(registry, GetChain(req))
         slot == [IdleSlot EXCEPT !.req = req]
         called == [slot EXCEPT
                      !.calls = Append(@, [adaptor |-> adaptor, method |-> d.call,
                                           req |-> req])]
     IN IF d.kind = "invoke"
          THEN Continue(r, called, AdaptorEnter(impl, adaptor, d.call, req))
          ELSE Continue(r, slot, d)
  /\ UNCHANGED startupVars

\* the pending downstream call comes back, and the adaptor method runs on to
\* its next downstream call, its return or its panic
DownstreamReturn(r, outcome) ==
  /\ phase = "serving"
  /\ reqs[r].pc = "downstream"
  /\ outcome \in DsOutcomes(reqs[r].pending)
  /\ LET call == reqs[r].pending
         logged == [reqs[r] EXCEPT
                      !.ds = Append(@, [call |-> call, outcome |-> outcome])]
     IN Continue(r, logged, AdaptorResume(call, outcome))
  /\ UNCHANGED startupVars

\* the caller has its reply: the slot is free for the next request
Complete(r) ==
  /\ phase = "serving"
  /\ reqs[r].pc = "done"
  /\ reqs' = [reqs EXCEPT ![r] = IdleSlot]
  /\ UNCHANGED <<phase, exit, firstFaultReply>>
  /\ UNCHANGED startupVars

Next ==
  \/ \E ok \in BOOLEAN : LoadConfig(ok)
  \/ \E o \in FactoryOutcomes : NewIter(o)
  \/ NewReturn
  \/ \E ok \in BOOLEAN : Serve(ok)
  \/ \E r \in Slots, req \in Requests : Interceptor(r, req)
  \/ \E r \in Slots, o \in {"ok", "err", "okNoBlob"} : DownstreamReturn(r, o)
  \/ \E r \in Slots : Complete(r)

Spec == Init /\ [][Next]_vars

(* ----------------------------- cancellation ---------------------------- *)

\* the caller cancels the request (or its deadline passes) while the adaptor
\* waits for a downstream call: grpc cancels the ctx handed to Interceptor. A
\* call that runs under that ctx ends with the ctx's error; a call that does
\* not is left as it is
Cancel(r) ==
  /\ phase = "serving"
  /\ reqs[r].pc = "downstream"
  /\ ~reqs[r].cancelled
  /\ LET call == reqs[r].pending
         marked == [reqs[r] EXCEPT !.cancelled = TRUE]
         logged == [marked EXCEPT
                      !.ds = Append(@, [call |-> call, outcome |-> "err"])]
     IN IF reqs[r].callCtx = "request"
          THEN Continue(r, logged, AdaptorResume(call, "err"))
          ELSE /\ reqs' = [reqs EXCEPT ![r] = marked]
               /\ UNCHANGED <<phase, exit, firstFaultReply>>
  /\ UNCHANGED startupVars

NextCancel ==
  \/ Next
  \/ \E r \in Slots : Cancel(r)

\* the server with callers that cancel; what the Go scheduler and grpc see to
\* is that a reply Interceptor has returned goes out to its caller, while
\* nothing makes a node or the data API answer
SpecCancel ==
  /\ Init
  /\ [][NextCancel]_vars
  /\ \A r \in Slots : WF_vars(Complete(r))

(* ------------------------- concurrent requests ------------------------- *)

\* the request slots of a server with several requests in flight: grpc runs
\* each request's Interceptor call in a goroutine of its own
ConcSlots == 1 .. MaxConc

\* the requests sent to it: one that the adaptor answers at once, the kinds
\* of panic (in the dispatcher, in an unimplemented adaptor method, in the Go
\* runtime before and after a downstream call) and one with two downstream
\* calls, each for a registered and for an unregistered chain
ConcRequests ==
  {Request(op, c, << >>, 0, "") :
     op \in {"GetSupportChains", "ValidAddress", "GetFee", "ConvertAddress",
             "GetAccount", "GetBlockHeaderByHash"},
     c \in {"Ethereum", "bitcoin"}}

InitConc ==
  /\ phase = "start"
  /\ exit = "none"
  /\ impl \in Impls
  /\ file \in Confs
  /\ conf = << >>
  /\ idx = 0
  /\ registry = EmptyRegistry
  /\ nextId = 0
  /\ failed = {}
  /\ reqs = [r \in ConcSlots |-> IdleSlot]
  /\ firstFaultReply = NoReply

NextConc ==
  \/ \E ok \in BOOLEAN : LoadConfig(ok)
  \/ \E o \in FactoryOutcomes : NewIter(o)
  \/ NewReturn
  \/ \E ok \in BOOLEAN : Serve(ok)
  \/ \E r \in ConcSlots, req \in ConcRequests : Interceptor(r, req)
  \/ \E r \in ConcSlots, o \in {"ok", "err", "okNoBlob"} : DownstreamReturn(r, o)
  \/ \E r \in ConcSlots : Complete(r)

SpecConc == InitConc /\ [][NextConc]_vars

(* ------------------------------ properties ----------------------------- *)

\* what the caller of the request in slot r is sent
Reply(r) == CallerSees(reqs[r].out)

\* the request in slot r has been answered
Done(r) == reqs[r].pc = "done"

\* the request in slot r names a chain that is a key of the registry
Registered(r) == GetChain(reqs[r].req) \in DOMAIN registry

\* the reply is a response message with this Code
HasCode(reply, code) == reply.resp # NilResp /\ reply.resp.Code = code

\* C1: a request for a chain that is not a key of the registry is answered, for
\* every dispatcher operation, with Code ERROR and the unsupported-operation
\* message, and no adaptor method is invoked for it.
C1_UnregisteredChainIsRefused ==
  \A r \in Slots :
    (reqs[r].pc # "idle" /\ ~Registered(r)) =>
      /\ Done(r)
      /\ HasCode(Reply(r), ReturnCode_ERROR)
      /\ Reply(r).resp.Msg = UnsupportedOperation
      /\ reqs[r].calls = << >>
      /\ reqs[r].ds = << >>

\* C2: a request for a chain that is a key of the registry invokes the method
\* named by its operation on the adaptor registered under that chain, exactly
\* once, with the request as it came in.
C2_RegisteredChainIsInvokedOnce ==
  \A r \in Slots :
    (reqs[r].pc # "idle" /\ Registered(r)) =>
      reqs[r].calls =
        << [adaptor |-> registry[GetChain(reqs[r].req)],
            method |-> reqs[r].req.op, req |-> reqs[r].req] >>

\* the request in slot r panicked
Faulted(r) == reqs[r].fault # ""

\* a panic has been recovered before
FaultSeen == firstFaultReply # NoReply

\* the GetSupportChains request for a chain
SupportRequest(chain) == Request("GetSupportChains", chain, << >>, 0, "")

NotImplemented(r) ==
  /\ reqs[r].calls # << >>
  /\ reqs[r].calls[1].adaptor # NilAdaptor
  /\ AdaptorEnter(impl, reqs[r].calls[1].adaptor, reqs[r].calls[1].method, reqs[r].req)
       = AdaptorNotImplemented

\* C4: an operation that the registered adaptor does not implement is answered
\* with a response message of Code ERROR and Msg "not implemented", without a
\* panic.
C4_NotImplementedIsAnEnvelope ==
  \A r \in Slots :
    (reqs[r].pc # "idle" /\ NotImplemented(r)) =>
      /\ ~Faulted(r)
      /\ Done(r)
      /\ HasCode(Reply(r), ReturnCode_ERROR)
      /\ Reply(r).resp.Msg = "not implemented"

\* the GetSupportChains request for the chain has been answered in slot r
SupportAnswered(r, chain) == Done(r) /\ reqs[r].req = SupportRequest(chain)

\* the reply to a request refused by the dispatcher's GetSupportChains
Unsupported(r) ==
  /\ HasCode(Reply(r), ReturnCode_ERROR)
  /\ Reply(r).resp.Msg = "unsupported operation"
  /\ reqs[r].calls = << >>
  /\ reqs[r].ds = << >>

\* the reply of the adaptor's GetSupportChains
Supported(r) ==
  /\ HasCode(Reply(r), ReturnCode_SUCCESS)
  /\ <<"Support", "true">> \in Reply(r).resp.Payload

\* C5 (as stated): with "ethereum" the only chain of the configuration,
\* GetSupportChains for "ethereum" is answered SUCCESS with support = true, and
\* GetSupportChains for "bitcoin" is answered ERROR "unsupported operation"
\* with no adaptor or downstream call.
C5_LowerCaseEthereumIsSupported ==
  conf = <<"ethereum">> =>
    \A r \in Slots :
      /\ SupportAnswered(r, "ethereum") => Supported(r)
      /\ SupportAnswered(r, "bitcoin") => Unsupported(r)

\* C5 (amended): with "Ethereum", the adaptor's ChainName, the only chain of
\* the configuration, GetSupportChains for "Ethereum" is answered SUCCESS with
\* support = true, and GetSupportChains for "bitcoin" or for "ethereum" (names
\* are matched with regard to case) is answered ERROR "unsupported operation"
\* with no adaptor or downstream call.
C5_EthereumIsSupported ==
  conf = <<"Ethereum">> =>
    \A r \in Slots :
      /\ SupportAnswered(r, "Ethereum") => Supported(r)
      /\ SupportAnswered(r, "bitcoin") => Unsupported(r)
      /\ SupportAnswered(r, "ethereum") => Unsupported(r)

\* C5 witness: the configuration lists "Ethereum" only and a GetSupportChains
\* request for "Ethereum" has been answered SUCCESS.
C5_Witness ==
  /\ conf = <<"Ethereum">>
  /\ \E r \in Slots : SupportAnswered(r, "Ethereum") /\ Supported(r)

\* the payload fields of an operation's response message (one field stands
\* for those of a response type that no adaptor fills in)
PayloadFields(op) ==
  CASE op = "GetSupportChains" -> {"Support"}
    [] op = "ConvertAddress" -> {"Address"}
    [] op \in {"GetBlockHeaderByHash", "GetBlockHeaderByNumber"} -> {"BlockHeader"}
    [] op \in {"GetBlockByNumber", "GetBlockByHash"} ->
         {"Hash", "BaseFee", "Transactions"}
    [] op = "GetAccount" -> {"AccountNumber", "Sequence", "Balance"}
    [] OTHER -> {"Payload"}

\* every payload field of the operation is set in the response message
Populated(op, resp) == {f[1] : f \in resp.Payload} = PayloadFields(op)

\* a downstream call of the request in slot r failed
DownstreamFailed(r) ==
  \E i \in 1 .. Len(reqs[r].ds) : reqs[r].ds[i].outcome = "err"

\* C6: every answered request is answered with a response message, whose Code
\* is SUCCESS exactly when no downstream call failed and the payload is fully
\* populated.
C6_SuccessIffPopulated ==
  \A r \in Slots :
    Done(r) =>
      /\ reqs[r].out.resp # NilResp
      /\ Reply(r).resp # NilResp
      /\ Reply(r).resp.Code \in {ReturnCode_SUCCESS, ReturnCode_ERROR}
      /\ Reply(r).resp.Code = ReturnCode_SUCCESS
           <=> (~DownstreamFailed(r) /\ Populated(reqs[r].req.op, Reply(r).resp))

\* C7: a request one of whose downstream calls failed is answered with a
\* response message of Code ERROR, a message and a zero-valued payload, and the
\* failed call is the last downstream call made for it (it is not retried).
C7_DownstreamFailureIsAnErrorEnvelope ==
  \A r \in Slots :
    (Done(r) /\ DownstreamFailed(r)) =>
      /\ HasCode(Reply(r), ReturnCode_ERROR)
      /\ Reply(r).resp.Msg # ""
      /\ Reply(r).resp.Payload = {}
      /\ reqs[r].ds[Len(reqs[r].ds)].outcome = "err"
      /\ Len(reqs[r].calls) = 1

\* C8: every request that panicked is sent the same reply, whatever the value
\* it panicked with.
C8_FaultRepliesAreEqual ==
  \A r \in Slots : (Done(r) /\ Faulted(r)) => Reply(r) = firstFaultReply

\* the chains of the configuration file
Configured == {file[i] : i \in 1 .. Len(file)}

\* C9: a chain's construction failure ends the process before New returns: when
\* a construction function has failed the process has exited with os.Exit(1)
\* and no request has been taken, New has returned only if no construction
\* failed, and a serving registry holds no nil adaptor and no chain whose
\* construction failed.
C9_ConstructionFailureAborts ==
  /\ failed # {} =>
       /\ phase = "exited"
       /\ exit = "exit1"
       /\ \A r \in Slots : reqs[r].pc = "idle"
  /\ phase \in {"built", "serving"} =>
       /\ failed = {}
       /\ \A c \in DOMAIN registry : registry[c] # NilAdaptor /\ c \notin failed

\* C9 witness: a construction function has failed and the process has exited.
C9_Witness == failed # {} /\ phase = "exited"

\* C10: the registry's keys are chains of the configuration that have a
\* construction function, and every adaptor method invoked for a request is
\* invoked on the registry's entry for the request's chain.
C10_RegistryWithinConfiguration ==
  /\ DOMAIN registry \subseteq Configured \cap chainAdaptorFactorMap
  /\ \A r \in Slots :
       \A i \in 1 .. Len(reqs[r].calls) :
         /\ Registered(r)
         /\ reqs[r].calls[i].adaptor = registry[GetChain(reqs[r].req)]
         /\ reqs[r].calls[i].adaptor # NilAdaptor

\* C10 witness: the configuration names a chain without a construction
\* function beside one with, the registry holds the latter only, and an adaptor
\* method has been invoked for a request.
C10_Witness ==
  /\ phase = "serving"
  /\ "bitcoin" \in Configured
  /\ DOMAIN registry = {ChainName}
  /\ \E r \in Slots : reqs[r].calls # << >>

\* the request slots of the server
AllSlots == DOMAIN reqs

\* C11: the registry is written only while New runs, before any request is
\* taken: a step that changes the registry is a step of New's loop with every
\* slot idle, the server serves only after New has gone through every
\* configured chain, and no step taken while serving, whatever requests are in
\* flight and whether or not they panic, changes the registry.
C11_RegistryIsWrittenOnlyAtStartup ==
  /\ [](phase = "serving" => idx = Len(conf))
  /\ []((\E r \in AllSlots : reqs[r].pc # "idle") => phase = "serving")
  /\ [][/\ registry' # registry =>
             (phase = "building" /\ \A r \in AllSlots : reqs[r].pc = "idle")
        /\ phase = "serving" => (registry' = registry /\ phase' = "serving")]_vars

\* C11 witness: while serving a non-empty registry, one request waits for its
\* downstream call and another has panicked and been answered.
C11_Witness ==
  /\ phase = "serving"
  /\ DOMAIN registry # {}
  /\ \E r, s \in AllSlots :
       /\ reqs[r].pc = "downstream"
       /\ reqs[s].pc = "done" /\ reqs[s].fault # ""

\* what the code of a request has come to once the downstream calls it made
\* have answered as in ds[i], ds[i + 1], ..., from where res left it
RECURSIVE RunOn(_, _, _)
RunOn(res, ds, i) ==
  IF res.kind = "downstream" /\ i <= Len(ds)
    THEN RunOn(AdaptorResume(res.call, ds[i].outcome), ds, i + 1)
    ELSE res

\* what a request comes to when it is the only request the server ever takes
\* and its downstream calls answer as in ds
Alone(req, ds) ==
  LET d == DispatcherOp(registry, req)
      entered == IF d.kind = "invoke"
                   THEN AdaptorEnter(impl, Lookup(registry, GetChain(req)), d.call, req)
                   ELSE d
  IN RunOn(entered, ds, 1)

\* what Interceptor returns for a request that came to res
Returned(res) ==
  IF res.kind = "panic"
    THEN [resp |-> NilResp, err |-> PanicErr(res.fault)]
    ELSE [resp |-> res.resp, err |-> res.err]

\* the request in slot r panics in this step
FaultsNow(r) == reqs[r].fault = "" /\ reqs'[r].fault # ""

\* C12: the fault boundary is per request. A step in which one request panics
\* leaves the server serving and every other slot as it was; every request in
\* flight is where, and is answered with what, it would be had it been the
\* only request, given the answers of its own downstream calls; and a request
\* waiting for a downstream call can still take the answer.
C12_FaultLeavesSiblingsAlone ==
  /\ [][\A r \in AllSlots :
          FaultsNow(r) =>
            /\ phase' = "serving"
            /\ reqs'[r].pc = "done"
            /\ \A s \in AllSlots \ {r} : reqs'[s] = reqs[s]]_vars
  /\ [](\A r \in AllSlots :
          /\ Done(r) =>
               /\ Alone(reqs[r].req, reqs[r].ds).kind \in {"return", "panic"}
               /\ reqs[r].out = Returned(Alone(reqs[r].req, reqs[r].ds))
          /\ reqs[r].pc = "downstream" =>
               /\ Alone(reqs[r].req, reqs[r].ds) = Downstream(reqs[r].pending)
               /\ ENABLED DownstreamReturn(r, "ok"))

\* C12 witness: with two requests answered, one panicked after its downstream
\* call and the other got SUCCESS after its two downstream calls.
C12_Witness ==
  \E r, s \in AllSlots :
    /\ Done(s) /\ reqs[s].fault # "" /\ reqs[s].ds # << >>
    /\ Done(r) /\ reqs[r].fault = "" /\ Len(reqs[r].ds) = 2
    /\ HasCode(Reply(r), ReturnCode_SUCCESS)

\* C13: the caller's cancellation reaches the adaptor's outbound calls: a
\* downstream call that is pending when the caller has cancelled runs under the
\* request's ctx, and once the caller has cancelled while a downstream call is
\* pending, that call ends.
C13_CancellationAbortsDownstream ==
  /\ [](\A r \in Slots :
          (reqs[r].pc = "downstream" /\ reqs[r].cancelled) =>
            reqs[r].callCtx = "request")
  /\ \A r \in Slots :
       (reqs[r].pc = "downstream" /\ reqs[r].cancelled)
         ~> (reqs[r].pc # "downstream")

====
